---- MODULE Spec2Model ----
(***************************************************************************)
(* Model of the decoded-METAR parser of weathernoaa                        *)
(* (src/weathernoaa/src/weather.rs).                                       *)
(*                                                                         *)
(* Text is a TLA+ string; a cursor is, as in nom, the remaining input.     *)
(* Every nom combinator the source uses is an operator that returns an     *)
(* IResult: Ok(rest, out) or Err(input, code).  Each parser of the source  *)
(* is an operator built from them, line by line, and parse_weather is run  *)
(* as a state machine with one action per statement of its body.           *)
(***************************************************************************)
EXTENDS Integers, Sequences, FiniteSets, TLC

(***************************************************************************)
(* Strings                                                                 *)
(***************************************************************************)
CharAt(s, k) == SubSeq(s, k, k)

Take(s, n) == IF n <= 0 THEN "" ELSE IF n >= Len(s) THEN s ELSE SubSeq(s, 1, n)

Drop(s, n) == IF n >= Len(s) THEN "" ELSE IF n <= 0 THEN s ELSE SubSeq(s, n + 1, Len(s))

StartsWith(s, t) == Len(s) >= Len(t) /\ Take(s, Len(t)) = t

UpperCase == "ABCDEFGHIJKLMNOPQRSTUVWXYZ"

LowerCase == "abcdefghijklmnopqrstuvwxyz"

\* char::to_lowercase on the ASCII letters; every other character is itself.
LowerChar(c) ==
    LET hit == {k \in 1..Len(UpperCase) : CharAt(UpperCase, k) = c}
    IN  IF hit = {} THEN c ELSE CharAt(LowerCase, CHOOSE k \in hit : TRUE)

RECURSIVE Lower(_)
Lower(s) == IF s = "" THEN "" ELSE LowerChar(CharAt(s, 1)) \o Lower(Drop(s, 1))

\* char::is_whitespace, on the characters a report can hold
Whitespace == {" ", "\t", "\n", "\r", "\f"}

\* the characters nom's space1 accepts
SpaceOrTab == {" ", "\t"}

\* str::trim : strip leading and trailing whitespace
RECURSIVE TrimStart(_)
TrimStart(s) ==
    IF s # "" /\ CharAt(s, 1) \in Whitespace THEN TrimStart(Drop(s, 1)) ELSE s

RECURSIVE TrimEnd(_)
TrimEnd(s) ==
    IF s # "" /\ CharAt(s, Len(s)) \in Whitespace
    THEN TrimEnd(Take(s, Len(s) - 1)) ELSE s

Trim(s) == TrimEnd(TrimStart(s))

\* the least element of a non-empty set of numbers
Least(S) == CHOOSE k \in S : \A j \in S : k <= j

\* Length of the longest prefix of s holding no character of stop, looking
\* from position k on.
PrefixLen(s, stop, k) ==
    LET hits == {j \in k..Len(s) : CharAt(s, j) \in stop}
    IN  IF hits = {} THEN Len(s) ELSE Least(hits) - 1

\* Length of the longest prefix of s made of characters of allowed only.
PrefixIn(s, allowed, k) ==
    LET hits == {j \in k..Len(s) : CharAt(s, j) \notin allowed}
    IN  IF hits = {} THEN Len(s) ELSE Least(hits) - 1

\* str::split(c) : the pieces between the occurrences of c, all of them
RECURSIVE Split(_, _)
Split(s, c) ==
    LET n == PrefixLen(s, {c}, 1)
    IN  IF n = Len(s) THEN <<s>> ELSE <<Take(s, n)>> \o Split(Drop(s, n + 1), c)

(***************************************************************************)
(* Option and IResult                                                      *)
(***************************************************************************)
None == [some |-> FALSE]

Some(v) == [some |-> TRUE, val |-> v]

Ok(rest, out) == [ok |-> TRUE, rest |-> rest, out |-> out]

\* nom::Err::Error(nom::error::Error { input, code })
Err(input, code) == [ok |-> FALSE, input |-> input, code |-> code]

(***************************************************************************)
(* nom combinators (the complete variants the source imports)              *)
(***************************************************************************)
tag(t, i) == IF StartsWith(i, t) THEN Ok(Drop(i, Len(t)), t) ELSE Err(i, "Tag")

tag_no_case(t, i) ==
    IF Len(i) >= Len(t) /\ Lower(Take(i, Len(t))) = Lower(t)
    THEN Ok(Drop(i, Len(t)), Take(i, Len(t)))
    ELSE Err(i, "Tag")

\* take_till(|c| c in stop): never fails, may return the empty string
take_till(stop, i) ==
    LET n == PrefixLen(i, stop, 1) IN Ok(Drop(i, n), Take(i, n))

char(c, i) == IF StartsWith(i, c) THEN Ok(Drop(i, 1), c) ELSE Err(i, "Char")

newline(i) == char("\n", i)

\* space1 : one or more spaces or tabs
space1(i) ==
    LET n == PrefixIn(i, SpaceOrTab, 1)
    IN  IF n = 0 THEN Err(i, "Space") ELSE Ok(Drop(i, n), Take(i, n))

\* alt((a, b)) : b when a fails
alt(a, b) == IF a.ok THEN a ELSE b

\* opt(tag(t))
opt_tag(t, i) ==
    LET r == tag(t, i) IN IF r.ok THEN Ok(r.rest, Some(r.out)) ELSE Ok(i, None)

\* many0(tag(t)) : every consecutive copy of t; out is their list
RECURSIVE many0_tag(_, _)
many0_tag(t, i) ==
    LET r == tag(t, i)
    IN  IF ~r.ok THEN Ok(i, <<>>)
        ELSE LET more == many0_tag(t, r.rest)
             IN  Ok(more.rest, <<r.out>> \o more.out)

\* many1(tag(t)) : as many0, but the first copy must be there (the error of
\* nom::error::Error keeps the tag's own input and code)
many1_tag(t, i) ==
    LET r == tag(t, i)
    IN  IF ~r.ok THEN r
        ELSE LET more == many0_tag(t, r.rest)
             IN  Ok(more.rest, <<r.out>> \o more.out)

(***************************************************************************)
(* str::parse for the number types of the source                           *)
(***************************************************************************)
Digits == "0123456789"

IsDigit(c) == c # "" /\ \E k \in 1..Len(Digits) : CharAt(Digits, k) = c

DigitVal(c) == (CHOOSE k \in 1..Len(Digits) : CharAt(Digits, k) = c) - 1

AllDigits(s) == \A k \in 1..Len(s) : IsDigit(CharAt(s, k))

\* the value of a string of decimal digits (0 for the empty string)
RECURSIVE DigitsVal(_, _)
DigitsVal(s, acc) ==
    IF s = "" THEN acc ELSE DigitsVal(Drop(s, 1), acc * 10 + DigitVal(CharAt(s, 1)))

ParseOk(v) == [ok |-> TRUE, val |-> v]

ParseFail == [ok |-> FALSE]

\* the widths of the integer fields
U8Max == 255

U16Max == 65535

I16Max == 32767

\* core::num from_str_radix(_, 10): an optional '+' (and, for a signed type,
\* '-') that is not the whole text, then digits only, and no overflow
ParseInt(s, signed, lo, hi) ==
    LET neg  == signed /\ Len(s) > 1 /\ CharAt(s, 1) = "-"
        body == IF Len(s) > 1 /\ (CharAt(s, 1) = "+" \/ neg) THEN Drop(s, 1) ELSE s
        v    == DigitsVal(body, 0)
        n    == IF neg THEN 0 - v ELSE v
    IN  IF body = "" \/ ~AllDigits(body) \/ n < lo \/ n > hi
        THEN ParseFail ELSE ParseOk(n)

\* parse_u8 with the range of the wider type
parse_u8_as_u16(s) == ParseInt(s, FALSE, 0, U16Max)

parse_u8(s) == ParseInt(s, FALSE, 0, U8Max)

parse_u16(s) == ParseInt(s, FALSE, 0, U16Max)

parse_i16(s) == ParseInt(s, TRUE, 0 - I16Max - 1, I16Max)

\* An f64 is kept exactly, as mant * 10^exp with mant not a multiple of ten
\* (0 is mant 0, exp 0, so -0.0 = 0.0 as under PartialEq); inf and NaN are
\* their own values.  Rounding to 53 bits is not modelled: the texts read
\* are short decimals.
RECURSIVE F64(_, _)
F64(mant, exp) ==
    IF mant = 0 THEN [mant |-> 0, exp |-> 0]
    ELSE IF mant % 10 = 0 THEN F64(mant \div 10, exp + 1)
    ELSE [mant |-> mant, exp |-> exp]

F64Inf(neg) == [inf |-> TRUE, neg |-> neg]

F64NaN == [nan |-> TRUE]

\* a number parser that reads the digits a text starts with and stops at the
\* first other character, as C's atoi does
parse_f64_leading_digits(s) ==
    ParseOk(F64(DigitsVal(Take(s, PrefixIn(s, {CharAt(Digits, k) : k \in 1..Len(Digits)}, 1)),
                          0), 0))

\* <f64 as FromStr>::from_str (core::num::dec2flt): [sign] digits [. digits]
\* [e [sign] digits] with a digit before or after the point, or [sign]
\* inf | infinity | nan in any case
parse_f64(s) ==
    LET signed == s # "" /\ CharAt(s, 1) \in {"+", "-"}
        neg    == s # "" /\ CharAt(s, 1) = "-"
        body   == IF signed THEN Drop(s, 1) ELSE s
        ePos   == PrefixLen(body, {"e", "E"}, 1) + 1
        hasExp == ePos <= Len(body)
        mant   == Take(body, ePos - 1)
        expS   == Drop(body, ePos)
        expR   == IF hasExp THEN ParseInt(expS, TRUE, 0 - I16Max, I16Max) ELSE ParseOk(0)
        dot    == PrefixLen(mant, {"."}, 1) + 1
        ip     == Take(mant, dot - 1)
        fp     == Drop(mant, dot)
        m      == DigitsVal(ip \o fp, 0)
    IN  IF Lower(body) \in {"inf", "infinity"} THEN ParseOk(F64Inf(neg))
        ELSE IF Lower(body) = "nan" THEN ParseOk(F64NaN)
        ELSE IF AllDigits(ip) /\ AllDigits(fp) /\ Len(ip) + Len(fp) > 0 /\ expR.ok
        THEN ParseOk(F64(IF neg THEN 0 - m ELSE m, expR.val - Len(fp)))
        ELSE ParseFail

\* `let x = r?; K(x)` : r is evaluated once; an error is returned as it is
AndThen(r, K(_)) == CHOOSE y \in {IF x.ok THEN K(x) ELSE x : x \in {r}} : TRUE

\* map_res(take_till(stop), parse) : the error names the input it started from
map_res_take_till(stop, parse(_), i) ==
    AndThen(take_till(stop, i), LAMBDA r :
        CHOOSE y \in {IF v.ok THEN Ok(r.rest, v.val) ELSE Err(i, "MapRes") :
                        v \in {parse(r.out)}} : TRUE)

(***************************************************************************)
(* The field parsers                                                       *)
(***************************************************************************)
\* the rest of the line and its newline, as Some(text)
LineAsSome(i) ==
    AndThen(take_till({"\n"}, i), LAMBDA text :
    AndThen(newline(text.rest), LAMBDA nl :
        Ok(nl.rest, Some(text.out))))

\* fn parse_weather_str
parse_weather_str(i) ==
    AndThen(many0_tag("Weather: ", i), LAMBDA k :
        IF k.out = <<>> THEN Ok(k.rest, None) ELSE LineAsSome(k.rest))

\* parse_sky_condition with the line's newline left in the input
parse_sky_condition_keeps_newline(i) ==
    AndThen(opt_tag("Sky conditions: ", i), LAMBDA sky_tag :
        IF sky_tag.out.some
        THEN AndThen(take_till({"\n"}, sky_tag.rest), LAMBDA text :
                 Ok(text.rest, Some(text.out)))
        ELSE Ok(sky_tag.rest, None))

\* parse_sky_condition with the tag matched in any case
parse_sky_condition_no_case(i) ==
    AndThen(alt(tag_no_case("Sky conditions: ", i), Ok(i, "")), LAMBDA sky_tag :
        IF sky_tag.out # "" THEN LineAsSome(sky_tag.rest) ELSE Ok(sky_tag.rest, None))

\* fn parse_sky_condition
parse_sky_condition(i) ==
    AndThen(opt_tag("Sky conditions: ", i), LAMBDA sky_tag :
        IF sky_tag.out.some THEN LineAsSome(sky_tag.rest) ELSE Ok(sky_tag.rest, None))

\* impl TryFrom<&str> for Station : Ok(Station) or Err(String)
Station_try_from(i) ==
    LET parts == Split(i, ",")
    IN  IF Len(parts) = 2
        THEN [ok |-> TRUE,
              val |-> [place |-> parts[1],
                       country |-> Trim(Split(parts[2], "(")[1])]]
        ELSE [ok |-> FALSE, msg |-> "Failure parsing " \o i]

\* parse_station with the failure of Station::try_from returned as an error
parse_station_strict(i) ==
    AndThen(alt(tag_no_case("Station name not available", i), take_till({"\n"}, i)),
            LAMBDA result :
        LET station == Station_try_from(result.out)
        IN  IF station.ok THEN Ok(result.rest, Some(station.val))
            ELSE Err(i, "MapRes"))

\* fn parse_station
parse_station(i) ==
    AndThen(alt(tag_no_case("Station name not available", i), take_till({"\n"}, i)),
            LAMBDA result :
        LET station == Station_try_from(result.out)
        IN  IF station.ok THEN Ok(result.rest, Some(station.val))
            ELSE Ok(result.rest, None))

\* impl Default for WindInfo
WindInfo_default ==
    [cardinal |-> "μ", azimuth |-> F64(0, 0), mph |-> F64(0, 0), knots |-> F64(0, 0)]

\* calm_parser with the ":0" that ends the line left out of its tag
calm_parser_short_tag(i) ==
    AndThen(many1_tag("Wind: Calm", i), LAMBDA r : Ok(r.rest, WindInfo_default))

\* fn calm_parser
calm_parser(i) ==
    AndThen(many1_tag("Wind: Calm:0", i), LAMBDA r : Ok(r.rest, WindInfo_default))

\* wind_from_parser with the two speeds put in each other's field
wind_from_parser_swapped(i) ==
    AndThen(tag("Wind: from the ", i), LAMBDA r1 :
    AndThen(take_till(Whitespace, r1.rest), LAMBDA cardinal :
    AndThen(space1(cardinal.rest), LAMBDA r3 :
    AndThen(char("(", r3.rest), LAMBDA r4 :
    AndThen(map_res_take_till(Whitespace, parse_f64, r4.rest), LAMBDA azimuth :
    AndThen(tag(" degrees) at ", azimuth.rest), LAMBDA r6 :
    AndThen(map_res_take_till(Whitespace, parse_f64, r6.rest), LAMBDA mph :
    AndThen(tag(" MPH (", mph.rest), LAMBDA r8 :
    AndThen(map_res_take_till(Whitespace, parse_f64, r8.rest), LAMBDA knots :
    AndThen(take_till({"\n"}, knots.rest), LAMBDA r10 :
        Ok(r10.rest, [cardinal |-> cardinal.out, azimuth |-> azimuth.out,
                      mph |-> knots.out, knots |-> mph.out])))))))))))

\* fn wind_from_parser
wind_from_parser(i) ==
    AndThen(tag("Wind: from the ", i), LAMBDA r1 :
    AndThen(take_till(Whitespace, r1.rest), LAMBDA cardinal :
    AndThen(space1(cardinal.rest), LAMBDA r3 :
    AndThen(char("(", r3.rest), LAMBDA r4 :
    AndThen(map_res_take_till(Whitespace, parse_f64, r4.rest), LAMBDA azimuth :
    AndThen(tag(" degrees) at ", azimuth.rest), LAMBDA r6 :
    AndThen(map_res_take_till(Whitespace, parse_f64, r6.rest), LAMBDA mph :
    AndThen(tag(" MPH (", mph.rest), LAMBDA r8 :
    AndThen(map_res_take_till(Whitespace, parse_f64, r8.rest), LAMBDA knots :
    AndThen(take_till({"\n"}, knots.rest), LAMBDA r10 :
        Ok(r10.rest, [cardinal |-> cardinal.out, azimuth |-> azimuth.out,
                      mph |-> mph.out, knots |-> knots.out])))))))))))

\* wind_var_parser with the two speeds put in each other's field
wind_var_parser_swapped(i) ==
    AndThen(tag("Wind: Variable at ", i), LAMBDA r1 :
    AndThen(map_res_take_till(Whitespace, parse_f64, r1.rest), LAMBDA mph :
    AndThen(tag(" MPH (", mph.rest), LAMBDA r3 :
    AndThen(map_res_take_till(Whitespace, parse_f64, r3.rest), LAMBDA knots :
    AndThen(take_till({"\n"}, knots.rest), LAMBDA r5 :
        Ok(r5.rest, [cardinal |-> WindInfo_default.cardinal,
                     azimuth |-> WindInfo_default.azimuth,
                     mph |-> knots.out, knots |-> mph.out]))))))

\* fn wind_var_parser
wind_var_parser(i) ==
    AndThen(tag("Wind: Variable at ", i), LAMBDA r1 :
    AndThen(map_res_take_till(Whitespace, parse_f64, r1.rest), LAMBDA mph :
    AndThen(tag(" MPH (", mph.rest), LAMBDA r3 :
    AndThen(map_res_take_till(Whitespace, parse_f64, r3.rest), LAMBDA knots :
    AndThen(take_till({"\n"}, knots.rest), LAMBDA r5 :
        Ok(r5.rest, [cardinal |-> WindInfo_default.cardinal,
                     azimuth |-> WindInfo_default.azimuth,
                     mph |-> mph.out, knots |-> knots.out]))))))

\* fn parse_windinfo : alt((calm_parser, wind_from_parser, wind_var_parser));
\* when all three fail the error is the last one's
parse_windinfo(i) ==
    CHOOSE y \in {alt(a, alt(b, wind_var_parser(i))) :
                    a \in {calm_parser(i)}, b \in {wind_from_parser(i)}} : TRUE

\* parse_temperature with the two numbers put in each other's field
parse_temperature_swapped(i) ==
    AndThen(space1(i), LAMBDA r1 :
    AndThen(map_res_take_till(Whitespace, parse_f64, r1.rest), LAMBDA fahrenheit :
    AndThen(tag(" F (", fahrenheit.rest), LAMBDA r3 :
    AndThen(map_res_take_till(Whitespace, parse_f64, r3.rest), LAMBDA celsius :
    AndThen(take_till({"\n"}, celsius.rest), LAMBDA r5 :
        Ok(r5.rest, [celsius |-> fahrenheit.out, fahrenheit |-> celsius.out]))))))

\* fn parse_temperature
parse_temperature(i) ==
    AndThen(space1(i), LAMBDA r1 :
    AndThen(map_res_take_till(Whitespace, parse_f64, r1.rest), LAMBDA fahrenheit :
    AndThen(tag(" F (", fahrenheit.rest), LAMBDA r3 :
    AndThen(map_res_take_till(Whitespace, parse_f64, r3.rest), LAMBDA celsius :
    AndThen(take_till({"\n"}, celsius.rest), LAMBDA r5 :
        Ok(r5.rest, [celsius |-> celsius.out, fahrenheit |-> fahrenheit.out]))))))

\* fn parse_relative_humidity
parse_relative_humidity(i) ==
    AndThen(tag("Relative Humidity: ", i), LAMBDA r1 :
    AndThen(map_res_take_till({"%"}, parse_f64, r1.rest), LAMBDA humidity :
    AndThen(char("%", humidity.rest), LAMBDA r3 :
    AndThen(newline(r3.rest), LAMBDA r4 :
        Ok(r4.rest, humidity.out)))))

\* parse_pressure with the line terminator taken too, when there is one
parse_pressure_eats_newline(i) ==
    AndThen(tag("Pressure (altimeter): ", i), LAMBDA r1 :
    AndThen(take_till({"("}, r1.rest), LAMBDA r2 :
    AndThen(char("(", r2.rest), LAMBDA r3 :
    AndThen(map_res_take_till(Whitespace, parse_i16, r3.rest), LAMBDA pressure :
    AndThen(take_till({"\n"}, pressure.rest), LAMBDA r5 :
        Ok(Drop(r5.rest, 1), pressure.out))))))

\* parse_pressure looking at what follows its line: the coded trailer, which
\* starts with "ob: ", or nothing
parse_pressure_wants_trailer(i) ==
    AndThen(tag("Pressure (altimeter): ", i), LAMBDA r1 :
    AndThen(take_till({"("}, r1.rest), LAMBDA r2 :
    AndThen(char("(", r2.rest), LAMBDA r3 :
    AndThen(map_res_take_till(Whitespace, parse_i16, r3.rest), LAMBDA pressure :
    AndThen(take_till({"\n"}, pressure.rest), LAMBDA r5 :
        IF r5.rest = "" \/ StartsWith(r5.rest, "\nob: ")
        THEN Ok(r5.rest, pressure.out) ELSE Err(r5.rest, "Tag"))))))

\* parse_pressure reading the first number after its tag, the inches of mercury
parse_pressure_reads_inches(i) ==
    AndThen(tag("Pressure (altimeter): ", i), LAMBDA r1 :
    AndThen(map_res_take_till(Whitespace, parse_i16, r1.rest), LAMBDA pressure :
    AndThen(take_till({"\n"}, pressure.rest), LAMBDA r5 :
        Ok(r5.rest, pressure.out))))

\* fn parse_pressure
parse_pressure(i) ==
    AndThen(tag("Pressure (altimeter): ", i), LAMBDA r1 :
    AndThen(take_till({"("}, r1.rest), LAMBDA r2 :
    AndThen(char("(", r2.rest), LAMBDA r3 :
    AndThen(map_res_take_till(Whitespace, parse_i16, r3.rest), LAMBDA pressure :
    AndThen(take_till({"\n"}, pressure.rest), LAMBDA r5 :
        Ok(r5.rest, pressure.out))))))

\* fn parse_time
parse_time(i) ==
    AndThen(take_till({"/"}, i), LAMBDA r1 :
    AndThen(char("/", r1.rest), LAMBDA r2 :
    AndThen(char(" ", r2.rest), LAMBDA r3 :
    AndThen(map_res_take_till({"."}, parse_u16, r3.rest), LAMBDA y :
    AndThen(char(".", y.rest), LAMBDA r5 :
    AndThen(map_res_take_till({"."}, parse_u8, r5.rest), LAMBDA m :
    AndThen(char(".", m.rest), LAMBDA r7 :
    AndThen(map_res_take_till({" "}, parse_u8, r7.rest), LAMBDA d :
    AndThen(char(" ", d.rest), LAMBDA r9 :
    AndThen(take_till({"\n"}, r9.rest), LAMBDA time :
        Ok(time.rest, [year |-> y.out, month |-> m.out, day |-> d.out,
                       time |-> time.out])))))))))))

\* struct WeatherInfo, from the bindings
WeatherInfo(st, wt, wi, vi, sky, we, te, dp, rh, pr) ==
    [station |-> st, weather_time |-> wt, wind |-> wi, visibility |-> vi,
     sky_condition |-> sky, weather |-> we, temperature |-> te, dewpoint |-> dp,
     relative_humidity |-> rh, pressure |-> pr]

\* pub fn parse_weather, as one function of its argument
parse_weather(input0) ==
    AndThen(parse_station(input0), LAMBDA st :
    AndThen(newline(st.rest), LAMBDA n1 :
    AndThen(parse_time(n1.rest), LAMBDA wt :
    AndThen(newline(wt.rest), LAMBDA n2 :
    AndThen(parse_windinfo(n2.rest), LAMBDA wi :
    AndThen(newline(wi.rest), LAMBDA n3 :
    AndThen(tag("Visibility: ", n3.rest), LAMBDA t1 :
    AndThen(take_till({"\n"}, t1.rest), LAMBDA vi :
    AndThen(newline(vi.rest), LAMBDA n4 :
    AndThen(parse_sky_condition(n4.rest), LAMBDA sky :
    AndThen(parse_weather_str(sky.rest), LAMBDA we :
    AndThen(tag("Temperature:", we.rest), LAMBDA t2 :
    AndThen(parse_temperature(t2.rest), LAMBDA te :
    AndThen(newline(te.rest), LAMBDA n5 :
    AndThen(tag("Dew Point:", n5.rest), LAMBDA t3 :
    AndThen(parse_temperature(t3.rest), LAMBDA dp :
    AndThen(newline(dp.rest), LAMBDA n6 :
    AndThen(parse_relative_humidity(n6.rest), LAMBDA rh :
    AndThen(parse_pressure(rh.rest), LAMBDA pr :
        Ok(pr.rest, WeatherInfo(st.out, wt.out, wi.out, vi.out, sky.out, we.out, te.out,
                                dp.out, rh.out, pr.out)))))))))))))))))))))

(***************************************************************************)
(* The texts the parsers are run on                                        *)
(***************************************************************************)
\* most commas in a generated station header
MaxCommas == 2

\* most copies of a tag at the start of a generated line
MaxTagRepeat == 2

\* longest generated text after the newline that ends the pressure line
MaxTrailerLen == 2

RECURSIVE Repeat(_, _)
Repeat(t, n) == IF n = 0 THEN "" ELSE t \o Repeat(t, n - 1)

\* every text of at most n characters of the set alphabet
RECURSIVE Texts(_, _)
Texts(alphabet, n) ==
    IF n = 0 THEN {""}
    ELSE LET shorter == Texts(alphabet, n - 1)
         IN  shorter \cup {c \o t : c \in alphabet, t \in {u \in shorter : Len(u) = n - 1}}

QingdaoHeader == "Qingdao, China (ZSQD) 36-04N 120-20E 77M"

YakimaHeader == "YAKIMA AIR TERMINAL, WA, United States (KYKM) 46-34N 120-32W 324M"

Sentinel == "Station name not available"

\* "Place, Part1, ..., Partk (ICAO) position" for each number k of commas
GeneratedHeaders ==
    {"Place" \o Repeat(", Part", k) \o " (ICAO) 10-00N 20-00E 5M" : k \in 0..MaxCommas}

StationLines ==
    GeneratedHeaders \cup
    {QingdaoHeader, YakimaHeader, Sentinel, "STATION NAME NOT AVAILABLE",
     "station name not available", "Station name not available (VOGO)",
     "Station name not available, India (VOGO)", "Lima,  Peru ", "A,B",
     "Nowhere", ""}

GoodTime == "Mar 28, 2021 - 04:00 AM EDT / 2021.03.28 0800 UTC"

TimeLines ==
    {GoodTime, "Dec 30, 2023 - 10:53 PM EST / 2023.12.31 0353 UTC",
     "Mar 28, 2021 - 04:00 AM EDT 2021.03.28 0800 UTC",
     "Mar 28, 2021 - 04:00 AM EDT /2021.03.28 0800 UTC",
     "x / 2021.3a.28 0800 UTC", "x / 70000.03.28 0800 UTC",
     "x / 2021.13.28 0800 UTC", "x / 2021.00.00 0800 UTC",
     "x / 2021.03.32 0800 UTC", "x / 2021.03.300 0800 UTC",
     "x / 2021.03.28", "x / 2021.03.28 "}

\* "<local time> / YYYY.MM.DD <time>"
TimeLine(local, y, m, d, time) ==
    local \o " / " \o y \o "." \o m \o "." \o d \o " " \o time

\* texts for the year, and for the month and the day, of a generated timestamp
YearTexts == {"2021", "1999", "65535", "65536", "20x1", ""}

SegmentTexts == {"03", "12", "28", "31", "00", "13", "32", "255", "256", "3a", ""}

TimeShapeLines ==
    {TimeLine("Mar 28, 2021 - 04:00 AM EDT", "2021", m, d, "0800 UTC") :
        m \in SegmentTexts, d \in SegmentTexts}
    \cup {TimeLine(local, y, "03", "28", time) :
            local \in {"Mar 28, 2021 - 04:00 AM EDT", ""}, y \in YearTexts,
            time \in {"0800 UTC", ""}}

\* a timestamp with no '/' on its line, and one on the line after
SplitTime == "Mar 28, 2021 - 04:00 AM EDT\n/ 2021.03.28 0800 UTC"

WindFrom(c, a, m, k, note) ==
    "Wind: from the " \o c \o " (" \o a \o " degrees) at " \o m \o " MPH ("
        \o k \o " KT" \o note

WindVar(m, k, note) == "Wind: Variable at " \o m \o " MPH (" \o k \o " KT" \o note

Cardinals == {"NNW", "SSW", "N"}

\* number texts with the value each denotes
Numbers ==
    {[txt |-> "340", val |-> F64(340, 0)], [txt |-> "16", val |-> F64(16, 0)],
     [txt |-> "14", val |-> F64(14, 0)], [txt |-> "0", val |-> F64(0, 0)],
     [txt |-> "200", val |-> F64(200, 0)], [txt |-> "12", val |-> F64(12, 0)],
     [txt |-> "7.5", val |-> F64(75, 0 - 1)]}

WindNotes == {"):0", ") (direction variable):0", ""}

WindFromLines ==
    {WindFrom(c, "340", "16", "14", note) : c \in Cardinals, note \in WindNotes}
    \cup {WindFrom("SSW", a.txt, m.txt, "14", "):0") : a \in Numbers, m \in Numbers}
    \cup {WindFrom("SSW", "200", "12", k.txt, ") (direction variable):0") : k \in Numbers}

WindLines ==
    WindFromLines \cup
    {Repeat("Wind: Calm:0", n) : n \in 1..MaxTagRepeat} \cup
    {WindVar("7", "6", "):0"), WindVar("x", "6", "):0"), "Wind: unexpected",
     "Wind: Calm", "wind: calm:0", "Wind: from the N W (340 degrees) at 16 MPH (14 KT):0",
     "Wind: from the NNW (34o degrees) at 16 MPH (14 KT):0", ""}

GoodWind == WindFrom("NNW", "340", "16", "14", "):0")

\* the speeds of the generated variable-wind lines, each with its value
VariableSpeeds ==
    {[txt |-> "7", val |-> F64(7, 0)], [txt |-> "6", val |-> F64(6, 0)],
     [txt |-> "0", val |-> F64(0, 0)], [txt |-> "12.5", val |-> F64(125, 0 - 1)]}

WindVarLines ==
    {WindVar(m.txt, k.txt, note) : m \in VariableSpeeds, k \in VariableSpeeds,
                                   note \in WindNotes}

GoodVisibility == "Visibility: 1 mile(s):0"

\* the optional lines, each with its terminator, "" when the line is absent
SkyLines ==
    {"", "sky conditions: overcast\n", "Sky conditions:overcast\n"} \cup
    {Repeat("Sky conditions: ", n) \o t \o "\n" :
        n \in 1..MaxTagRepeat, t \in {"overcast", "", "Weather: mist"}}

WeatherLines ==
    {"", "weather: mist\n", "Weather:mist\n"} \cup
    {Repeat("Weather: ", n) \o t \o "\n" :
        n \in 1..MaxTagRepeat, t \in {"widespread dust", "", "light drizzle; partial fog"}}

GoodTemperature == "Temperature: 64 F (18 C)"

TemperatureLines ==
    {GoodTemperature, "Temperature: 42.1 F (5.6 C)", "Temperature: -4 F (-20 C)",
     "Temperature: 6x F (18 C)", "Temperature: 64 F (1x C)", "Temperature:64 F (18 C)"}

\* " <F> F (<C> C)", what follows the tag of a temperature line
ValuePair(f, c) == " " \o f \o " F (" \o c \o " C)"

\* number texts of the temperature lines, each with its value
Readings ==
    {[txt |-> "78", val |-> F64(78, 0)], [txt |-> "26", val |-> F64(26, 0)],
     [txt |-> "-4", val |-> F64(0 - 4, 0)], [txt |-> "42.1", val |-> F64(421, 0 - 1)],
     [txt |-> "64", val |-> F64(64, 0)], [txt |-> "18", val |-> F64(18, 0)],
     [txt |-> "42", val |-> F64(42, 0)], [txt |-> "6", val |-> F64(6, 0)]}

ValuePairs == {ValuePair(f.txt, c.txt) : f \in Readings, c \in Readings}

GoodDewPoint == "Dew Point: 42 F (6 C)"

DewPointLines == {GoodDewPoint, "Dew Point: 39.0 F (3.9 C)", "Dew Point: 42 F (x C)"}

GoodHumidity == "Relative Humidity: 45%"

HumidityLines == {GoodHumidity, "Relative Humidity: 4x%", "Relative Humidity: 45"}

GoodPressure == "Pressure (altimeter): 29.65 in. Hg (1004 hPa)"

PressureLines ==
    {GoodPressure, "Pressure (altimeter): 30.05 in. Hg (1017 hPa)",
     "Pressure (altimeter): 29.65 in. Hg (1004", "Pressure (altimeter): 29.65 in. Hg (10x4 hPa)",
     "Pressure (altimeter): 29.65 in. Hg 1004 hPa", "Pressure (altimeter): (40000 hPa)"}

\* "Pressure (altimeter): <inches> (<P> hPa)"
PressureLine(inches, p) == "Pressure (altimeter): " \o inches \o " (" \o p \o " hPa)"

InchesTexts == {"29.65 in. Hg", "30.05 in. Hg", "1017"}

\* texts of the hectopascal value, each with the integer it writes
HectoPascals ==
    {[txt |-> "1004", val |-> 1004], [txt |-> "1017", val |-> 1017],
     [txt |-> "0", val |-> 0], [txt |-> "-12", val |-> 0 - 12],
     [txt |-> "32767", val |-> 32767], [txt |-> "32768", val |-> 32768],
     [txt |-> "40000", val |-> 40000]}

PressureShapeLines ==
    {PressureLine(inches, p.txt) : inches \in InchesTexts, p \in HectoPascals}

\* a pressure line with no '(' after its tag, and one on the line after
SplitPressure == "Pressure (altimeter): 29.65 in. Hg\n(1004 hPa)"

\* texts that are no number to str::parse: a letter among the digits, nothing
\* at all, two points, two signs, a sign alone
Malformed == {"6x", "x", "", "1.2.3", "--4", "-"}

\* the value pairs with one of the two numbers malformed
MalformedPairs ==
    {ValuePair(t, "18") : t \in Malformed} \cup {ValuePair("64", t) : t \in Malformed}

HumidityLine(h) == "Relative Humidity: " \o h \o "%"

MalformedHumidity == {HumidityLine(t) : t \in Malformed}

MalformedPressure == {PressureLine("29.65 in. Hg", t) : t \in Malformed}

\* what follows the pressure line: nothing, or a newline and any text
Trailers ==
    {""} \cup {"\n" \o t : t \in Texts({"x", "\n"}, MaxTrailerLen)}
         \cup {"\nextra", "\nob: VOGO 301230Z 34006KT 6000 NSC 29/22 Q1010 NOSIG\ncycle: 12"}

Report(st, tm, wi, vi, sky, we, te, dp, rh, pr, tr) ==
    st \o "\n" \o tm \o "\n" \o wi \o "\n" \o vi \o "\n" \o sky \o we
       \o te \o "\n" \o dp \o "\n" \o rh \o "\n" \o pr \o tr

BaseReport ==
    Report(QingdaoHeader, GoodTime, GoodWind, GoodVisibility, "Sky conditions: overcast\n",
           "Weather: widespread dust\n", GoodTemperature, GoodDewPoint, GoodHumidity,
           GoodPressure, "")

SomeTrailers == {"", "\nextra"}

Reports ==
    {Report(st, GoodTime, GoodWind, GoodVisibility, "", "", GoodTemperature, GoodDewPoint,
            GoodHumidity, GoodPressure, tr) : st \in StationLines, tr \in SomeTrailers}
    \cup
    {Report(Sentinel, tm, wi, GoodVisibility, "Sky conditions: overcast\n", "", GoodTemperature,
            GoodDewPoint, GoodHumidity, GoodPressure, "") :
        tm \in TimeLines, wi \in {GoodWind, "Wind: Calm:0"}}
    \cup
    {Report(QingdaoHeader, GoodTime, wi, GoodVisibility, "", "Weather: mist\n", GoodTemperature,
            GoodDewPoint, GoodHumidity, GoodPressure, tr) : wi \in WindLines, tr \in SomeTrailers}
    \cup
    {Report(st, GoodTime, GoodWind, GoodVisibility, sky, we, GoodTemperature, GoodDewPoint,
            GoodHumidity, GoodPressure, tr) :
        st \in {QingdaoHeader, Sentinel}, sky \in SkyLines, we \in WeatherLines,
        tr \in SomeTrailers}
    \cup
    {Report(Sentinel, GoodTime, "Wind: Calm:0", GoodVisibility, "", "", te, dp, rh, pr, tr) :
        te \in TemperatureLines, dp \in DewPointLines, rh \in HumidityLines,
        pr \in {GoodPressure}, tr \in SomeTrailers}
    \cup
    {Report(QingdaoHeader, GoodTime, GoodWind, GoodVisibility, sky, "", GoodTemperature,
            GoodDewPoint, GoodHumidity, pr, tr) :
        sky \in {"", "Sky conditions: overcast\n"}, pr \in PressureLines, tr \in Trailers}
    \cup
    {Report(QingdaoHeader, tm, "Wind: Calm:0", GoodVisibility, "", "", GoodTemperature,
            GoodDewPoint, GoodHumidity, pr, tr) :
        tm \in {GoodTime, SplitTime}, pr \in {GoodPressure, SplitPressure},
        tr \in SomeTrailers}
    \cup
    {Report(Sentinel, GoodTime, "Wind: Calm:0", GoodVisibility, "", "", te, dp, rh, pr, "") :
        te \in {"Temperature:" \o l : l \in MalformedPairs}, dp \in {GoodDewPoint},
        rh \in {GoodHumidity}, pr \in {GoodPressure}}
    \cup
    {Report(Sentinel, GoodTime, "Wind: Calm:0", GoodVisibility, "", "", te, dp, rh, pr, "") :
        te \in {GoodTemperature}, dp \in {"Dew Point:" \o l : l \in MalformedPairs},
        rh \in {GoodHumidity}, pr \in {GoodPressure}}
    \cup
    {Report(Sentinel, GoodTime, "Wind: Calm:0", GoodVisibility, "", "", te, dp, rh, pr, "") :
        te \in {GoodTemperature}, dp \in {GoodDewPoint},
        rh \in MalformedHumidity \cup {GoodHumidity},
        pr \in MalformedPressure \cup {GoodPressure}}
    \cup
    {Take(BaseReport, n) : n \in {k \in 0..Len(BaseReport) :
        \/ k = 0
        \/ k = Len(BaseReport)
        \/ CharAt(BaseReport, k + 1) = "\n"
        \/ CharAt(BaseReport, k) = "\n"}}

Tails == {"", "\n", "\nrest"}

\* the two fetching methods of NoaaApp
Fetchers == {"get_weather", "get_blocking_weather"}

\* the station codes of the tests
StationCodes == {"VOBL", "non_existent"}

\* format!(".../decoded/{}.TXT", station_code)
noaa_url(station_code) ==
    "https://tgftp.nws.noaa.gov/data/observations/metar/decoded/" \o station_code \o ".TXT"

\* status codes a server can answer with, one or two of each class that
\* reaches the caller
Statuses == {200, 204, 301, 304, 404, 500}

\* bodies a server can send: a report, a report with part of it missing, an
\* error page, nothing
Bodies == {BaseReport, Take(BaseReport, 120), "<html>404 Not Found</html>", ""}

\* the parsers that are called on their own (by parse_weather and by the tests)
Inputs(fn) ==
    CASE fn = "parse_weather" -> Reports
      [] fn = "parse_station" -> {l \o t : l \in StationLines, t \in Tails}
      [] fn = "parse_windinfo" -> {l \o t : l \in WindLines \cup WindVarLines, t \in Tails}
      [] fn = "parse_time" ->
            {l \o t : l \in TimeLines \cup TimeShapeLines \cup {SplitTime}, t \in Tails}
      [] fn = "parse_temperature" ->
            {l \o t : l \in ValuePairs \cup MalformedPairs
                                \cup {"64 F (18 C)", " nan F (inf C)", " 64 F(18 C)"},
                      t \in Tails}
      [] fn = "parse_pressure" ->
            {l \o t : l \in PressureLines \cup PressureShapeLines \cup {SplitPressure},
                      t \in Tails}
      [] fn \in Fetchers -> StationCodes
      [] fn \in {"parse_sky_condition", "parse_weather_str"} ->
            {l \o t : l \in SkyLines \cup WeatherLines, t \in {"", "Temperature: 64 F (18 C)\n"}}
            \cup {"non_existent", "Weather: mist", "Sky conditions: overcast", "Weather", "\n"}

EntryPoints ==
    {"parse_weather", "parse_station", "parse_windinfo", "parse_sky_condition",
     "parse_weather_str", "parse_time", "parse_temperature", "parse_pressure"}
    \cup Fetchers

(***************************************************************************)
(* The state: one call of an entry point on one text                       *)
(***************************************************************************)
VARIABLES
    entry,              \* the function running
    input,              \* its argument
    pc,                 \* the statement about to run
    i,                  \* the cursor: the input not yet consumed
    station, weather_time, wind, visibility, sky_condition, weather,
    temperature, dewpoint, relative_humidity, pressure,    \* the let bindings
    ret,                \* what the call returned
    response,           \* the HTTP response a fetch obtained
    trace               \* the statements run so far, in order, each with its outcome

locals ==
    <<station, weather_time, wind, visibility, sky_condition, weather, temperature,
      dewpoint, relative_humidity, pressure>>

vars == <<entry, input, pc, i, locals, ret, response, trace>>

\* a let binding not yet made
Unbound == [unbound |-> TRUE]

\* the call has not returned
Pending == [pending |-> TRUE]

\* the statements of parse_weather, in the order of its body
Statements ==
    <<"station", "nl_station", "time", "nl_time", "wind", "nl_wind", "visibility_tag",
      "visibility", "nl_visibility", "sky_condition", "weather", "temperature_tag",
      "temperature", "nl_temperature", "dewpoint_tag", "dewpoint", "nl_dewpoint",
      "relative_humidity", "pressure", "winfo">>

IndexOf(stmt) == CHOOSE k \in 1..Len(Statements) : Statements[k] = stmt

\* the statement after stmt in the body
Following(stmt) == Statements[IndexOf(stmt) + 1]

\* where each entry point starts
FirstStatement(fn) ==
    CASE fn = "parse_weather" -> "station"
      [] fn = "parse_station" -> "station"
      [] fn = "parse_windinfo" -> "wind"
      [] fn = "parse_sky_condition" -> "sky_condition"
      [] fn = "parse_weather_str" -> "weather"
      [] fn = "parse_time" -> "time"
      [] fn = "parse_temperature" -> "temperature"
      [] fn = "parse_pressure" -> "pressure"
      [] fn \in Fetchers -> "send"

Init ==
    /\ entry \in EntryPoints
    /\ input \in Inputs(entry)
    /\ pc = FirstStatement(entry)
    /\ i = input
    /\ station = Unbound /\ weather_time = Unbound /\ wind = Unbound
    /\ visibility = Unbound /\ sky_condition = Unbound /\ weather = Unbound
    /\ temperature = Unbound /\ dewpoint = Unbound /\ relative_humidity = Unbound
    /\ pressure = Unbound
    /\ ret = Pending
    /\ response = Unbound
    /\ trace = <<>>

\* the statement with its error dropped: the body goes on to the next statement
QuestionIgnored(r, stmt) ==
    /\ trace' = Append(trace, [stmt |-> stmt, ok |-> r.ok])
    /\ IF entry # "parse_weather"
       THEN /\ ret' = r
            /\ i' = IF r.ok THEN r.rest ELSE i
            /\ pc' = "done"
       ELSE /\ ret' = ret
            /\ i' = IF r.ok THEN r.rest ELSE i
            /\ pc' = Following(stmt)

\* `let (i, x) = r?;` inside parse_weather, and the return of r when the parser
\* was called on its own.  The binding of x is the caller's conjunct.
Question(r, stmt) ==
    /\ trace' = Append(trace, [stmt |-> stmt, ok |-> r.ok])
    /\ IF entry # "parse_weather"
       THEN /\ ret' = r
            /\ i' = IF r.ok THEN r.rest ELSE i
            /\ pc' = "done"
       ELSE IF r.ok
       THEN /\ ret' = ret
            /\ i' = r.rest
            /\ pc' = Following(stmt)
       ELSE /\ ret' = r
            /\ i' = i
            /\ pc' = "done"

\* the value a statement binds: the parser's output, nothing on an error
Bound(r, old) == IF r.ok THEN r.out ELSE old

\* let (i, station) = parse_station(i)?;
Station ==
    /\ pc = "station"
    /\ \E r \in {parse_station(i)} :
           Question(r, "station") /\ station' = Bound(r, station)
    /\ UNCHANGED <<entry, input, response, weather_time, wind, visibility, sky_condition, weather,
                   temperature, dewpoint, relative_humidity, pressure>>

\* let (i, _) = newline(i)?;
Newline ==
    /\ pc \in {"nl_station", "nl_time", "nl_wind", "nl_visibility", "nl_temperature",
               "nl_dewpoint"}
    /\ \E r \in {newline(i)} : Question(r, pc)
    /\ UNCHANGED <<entry, input, response, locals>>

\* let (i, weather_time) = parse_time(i)?;
Time ==
    /\ pc = "time"
    /\ \E r \in {parse_time(i)} :
           Question(r, "time") /\ weather_time' = Bound(r, weather_time)
    /\ UNCHANGED <<entry, input, response, station, wind, visibility, sky_condition, weather,
                   temperature, dewpoint, relative_humidity, pressure>>

\* let (i, wind) = parse_windinfo(i)?;
Wind ==
    /\ pc = "wind"
    /\ \E r \in {parse_windinfo(i)} :
           Question(r, "wind") /\ wind' = Bound(r, wind)
    /\ UNCHANGED <<entry, input, response, station, weather_time, visibility, sky_condition, weather,
                   temperature, dewpoint, relative_humidity, pressure>>

\* the literal each tag statement expects
TagOf(stmt) ==
    CASE stmt = "visibility_tag" -> "Visibility: "
      [] stmt = "temperature_tag" -> "Temperature:"
      [] stmt = "dewpoint_tag" -> "Dew Point:"

\* let (i, _) = tag("...")(i)?;
Tag ==
    /\ pc \in {"visibility_tag", "temperature_tag", "dewpoint_tag"}
    /\ \E r \in {tag(TagOf(pc), i)} : Question(r, pc)
    /\ UNCHANGED <<entry, input, response, locals>>

\* let (i, visibility) = take_till(|c| c == '\n')(i)?;
Visibility ==
    /\ pc = "visibility"
    /\ \E r \in {take_till({"\n"}, i)} :
           Question(r, "visibility") /\ visibility' = Bound(r, visibility)
    /\ UNCHANGED <<entry, input, response, station, weather_time, wind, sky_condition, weather,
                   temperature, dewpoint, relative_humidity, pressure>>

\* let (i, sky_condition) = parse_sky_condition(i)?;
SkyCondition ==
    /\ pc = "sky_condition"
    /\ \E r \in {parse_sky_condition(i)} :
           Question(r, "sky_condition") /\ sky_condition' = Bound(r, sky_condition)
    /\ UNCHANGED <<entry, input, response, station, weather_time, wind, visibility, weather,
                   temperature, dewpoint, relative_humidity, pressure>>

\* let (i, weather) = parse_weather_str(i)?;
Weather ==
    /\ pc = "weather"
    /\ \E r \in {parse_weather_str(i)} :
           Question(r, "weather") /\ weather' = Bound(r, weather)
    /\ UNCHANGED <<entry, input, response, station, weather_time, wind, visibility, sky_condition,
                   temperature, dewpoint, relative_humidity, pressure>>

\* let (i, temperature) = parse_temperature(i)?;
Temperature ==
    /\ pc = "temperature"
    /\ \E r \in {parse_temperature(i)} :
           Question(r, "temperature") /\ temperature' = Bound(r, temperature)
    /\ UNCHANGED <<entry, input, response, station, weather_time, wind, visibility, sky_condition,
                   weather, dewpoint, relative_humidity, pressure>>

\* let (i, dewpoint) = parse_temperature(i)?;
DewPoint ==
    /\ pc = "dewpoint"
    /\ \E r \in {parse_temperature(i)} :
           Question(r, "dewpoint") /\ dewpoint' = Bound(r, dewpoint)
    /\ UNCHANGED <<entry, input, response, station, weather_time, wind, visibility, sky_condition,
                   weather, temperature, relative_humidity, pressure>>

\* let (i, relative_humidity) = parse_relative_humidity(i)?;
RelativeHumidity ==
    /\ pc = "relative_humidity"
    /\ \E r \in {parse_relative_humidity(i)} :
           Question(r, "relative_humidity")
           /\ relative_humidity' = Bound(r, relative_humidity)
    /\ UNCHANGED <<entry, input, response, station, weather_time, wind, visibility, sky_condition,
                   weather, temperature, dewpoint, pressure>>

\* let (i, pressure) = parse_pressure(i)?;
Pressure ==
    /\ pc = "pressure"
    /\ \E r \in {parse_pressure(i)} :
           Question(r, "pressure") /\ pressure' = Bound(r, pressure)
    /\ UNCHANGED <<entry, input, response, station, weather_time, wind, visibility, sky_condition,
                   weather, temperature, dewpoint, relative_humidity>>

\* let winfo = WeatherInfo { ... }; Ok((i, winfo))
Winfo ==
    /\ pc = "winfo"
    /\ ret' = Ok(i, WeatherInfo(station, weather_time, wind, visibility, sky_condition,
                                weather, temperature, dewpoint, relative_humidity, pressure))
    /\ trace' = Append(trace, [stmt |-> "winfo", ok |-> TRUE])
    /\ pc' = "done"
    /\ UNCHANGED <<entry, input, response, i, locals>>

\* impl From<reqwest::Error> for WeatherError
ReqwestError(cause) == [ok |-> FALSE, error |-> "ReqwestError", cause |-> cause]

\* impl From<nom::Err<nom::error::Error<&str>>> for WeatherError
NomError(err) == [ok |-> FALSE, error |-> "NomError", input |-> err.input, code |-> err.code]

\* StatusCode::is_client_error() || StatusCode::is_server_error()
IsErrorStatus(status) == 400 <= status /\ status <= 599

\* a step of a fetching method that ended in `?` with a reqwest::Error
FetchFailed(stmt, cause) ==
    /\ trace' = Append(trace, [stmt |-> stmt, ok |-> FALSE])
    /\ ret' = ReqwestError(cause)
    /\ pc' = "done"

\* self.client.get(noaa_url).send().await? : the transport fails, or a
\* response arrives with some status and some body, readable or not
Send ==
    /\ pc = "send"
    /\ \/ FetchFailed("send", "transport") /\ response' = response
       \/ /\ \E status \in Statuses, body \in Bodies, readable \in BOOLEAN :
                 response' = [caller |-> entry, url |-> noaa_url(input), status |-> status,
                              body |-> body, readable |-> readable]
          /\ trace' = Append(trace, [stmt |-> "send", ok |-> TRUE])
          /\ pc' = "error_for_status"
          /\ ret' = ret
    /\ UNCHANGED <<entry, input, i, locals>>

\* .error_for_status()? : an error for a 4xx or 5xx status, the response as
\* it is for every other status
ErrorForStatus ==
    /\ pc = "error_for_status"
    /\ IF IsErrorStatus(response.status)
       THEN FetchFailed("error_for_status", "status")
       ELSE /\ trace' = Append(trace, [stmt |-> "error_for_status", ok |-> TRUE])
            /\ pc' = "text"
            /\ ret' = ret
    /\ UNCHANGED <<entry, input, i, locals, response>>

\* let body = res.text().await?;
Text ==
    /\ pc = "text"
    /\ IF response.readable
       THEN /\ trace' = Append(trace, [stmt |-> "text", ok |-> TRUE])
            /\ i' = response.body
            /\ pc' = "parse_weather"
            /\ ret' = ret
       ELSE FetchFailed("text", "body") /\ i' = i
    /\ UNCHANGED <<entry, input, locals, response>>

\* parse_weather(&body) : the call; parse_weather runs on the body from its
\* first statement
ParseBody ==
    /\ pc = "parse_weather"
    /\ entry' = "parse_weather"
    /\ input' = i
    /\ pc' = FirstStatement("parse_weather")
    /\ trace' = Append(trace, [stmt |-> "parse_weather", ok |-> TRUE])
    /\ UNCHANGED <<i, locals, ret, response>>

\* let (_, result) = parse_weather(&body)?; Ok(result) : back in the fetching
\* method, with the record or with the parser's error as a WeatherError
Result ==
    /\ pc = "done"
    /\ entry = "parse_weather"
    /\ response # Unbound
    /\ entry' = response.caller
    /\ ret' = IF ret.ok THEN [ok |-> TRUE, out |-> ret.out] ELSE NomError(ret)
    /\ UNCHANGED <<input, pc, i, locals, response, trace>>

Next ==
    \/ Station \/ Newline \/ Time \/ Wind \/ Tag \/ Visibility \/ SkyCondition \/ Weather
    \/ Temperature \/ DewPoint \/ RelativeHumidity \/ Pressure \/ Winfo
    \/ Send \/ ErrorForStatus \/ Text \/ ParseBody \/ Result

Spec == Init /\ [][Next]_vars

(***************************************************************************)
(* Properties                                                              *)
(***************************************************************************)
\* the text up to the first newline, or all of it
FirstLine(s) == Take(s, PrefixLen(s, {"\n"}, 1))

\* parse_weather takes the whole of r and returns a record
AcceptsWhole(r) == \E res \in {parse_weather(r)} : res.ok /\ res.rest = ""

\* C1: whenever the input is an accepted report R that ends with its pressure
\* line, then a newline and any text T, the call succeeds and the remainder
\* it returns is the newline and T, untouched.
C1_TrailingTextReturned ==
    (entry = "parse_weather" /\ pc = "done") =>
        \A k \in 1..Len(input) :
            (CharAt(input, k) = "\n" /\ AcceptsWhole(Take(input, k - 1)))
                => (ret.ok /\ ret.rest = Drop(input, k - 1) /\ i = ret.rest)

C1_Witness ==
    /\ entry = "parse_weather" /\ pc = "done" /\ ret.ok
    /\ ret.rest = "\nextra"
    /\ AcceptsWhole(Take(input, Len(input) - Len("\nextra")))

\* the ten stages of the document, in document order
FieldStages ==
    <<"station", "time", "wind", "visibility", "sky_condition", "weather", "temperature",
      "dewpoint", "relative_humidity", "pressure">>

\* the stages among the statements run, in the order they ran
RECURSIVE StagesRun(_)
StagesRun(t) ==
    IF t = <<>> THEN <<>>
    ELSE IF \E k \in 1..Len(FieldStages) : FieldStages[k] = Head(t).stmt
         THEN <<Head(t).stmt>> \o StagesRun(Tail(t))
         ELSE StagesRun(Tail(t))

\* C2: the stages run in document order; a statement that failed is the last
\* one run and the call then returns an error with no record; a record is
\* returned only after all ten stages ran and none failed.
C2_StagesInOrderFailFast ==
    entry = "parse_weather" =>
        /\ StagesRun(trace) = SubSeq(FieldStages, 1, Len(StagesRun(trace)))
        /\ \A k \in 1..Len(trace) :
              ~trace[k].ok => (k = Len(trace) /\ pc = "done" /\ ~ret.ok
                               /\ "out" \notin DOMAIN ret)
        /\ (pc = "done" /\ ret.ok) =>
              (StagesRun(trace) = FieldStages /\ \A k \in 1..Len(trace) : trace[k].ok)
        /\ pc = "done" => (ret.ok \/ \E k \in 1..Len(trace) : ~trace[k].ok)

C2_Witness ==
    /\ entry = "parse_weather" /\ pc = "done" /\ ~ret.ok
    /\ StagesRun(trace) = <<"station", "time", "wind">>

\* C3: an optional stage whose cursor does not start with its tag binds None
\* and leaves the cursor where it was.
C3_AbsentOptionalLineUntouched ==
    [][/\ (pc = "sky_condition" /\ ~StartsWith(i, "Sky conditions: ")) =>
            (i' = i /\ sky_condition' = None /\ ret' \in {Pending, Ok(i, None)}
             /\ pc' = IF entry = "parse_weather" THEN "weather" ELSE "done")
       /\ (pc = "weather" /\ ~StartsWith(i, "Weather: ")) =>
            (i' = i /\ weather' = None /\ ret' \in {Pending, Ok(i, None)}
             /\ pc' = IF entry = "parse_weather" THEN "temperature_tag" ELSE "done")
      ]_vars

C3_Witness ==
    /\ entry = "parse_weather" /\ pc = "temperature_tag"
    /\ sky_condition = None /\ weather = None
    /\ StartsWith(i, "Temperature:")

\* the line is followed by a newline
Terminated(s) == Len(FirstLine(s)) < Len(s)

\* the cursor after the first line and its newline
AfterFirstLine(s) == Drop(s, Len(FirstLine(s)) + 1)

\* C4: an optional stage whose cursor starts with its tag, on a line ended by
\* a newline, binds Some(the rest of the line after that one tag) and leaves
\* the cursor just after the newline.
C4_TaggedLineAfterOneTag ==
    [][/\ (pc = "sky_condition" /\ StartsWith(i, "Sky conditions: ") /\ Terminated(i)) =>
            (/\ sky_condition' = Some(Drop(FirstLine(i), Len("Sky conditions: ")))
             /\ i' = AfterFirstLine(i))
       /\ (pc = "weather" /\ StartsWith(i, "Weather: ") /\ Terminated(i)) =>
            (/\ weather' = Some(Drop(FirstLine(i), Len("Weather: ")))
             /\ i' = AfterFirstLine(i))
      ]_vars

\* the text after the n-th newline of s ("" when s has fewer)
RECURSIVE AfterLines(_, _)
AfterLines(s, n) ==
    IF n = 0 THEN s
    ELSE IF ~Terminated(s) THEN "" ELSE AfterLines(AfterFirstLine(s), n - 1)

\* what follows the four lines station, timestamp, wind, visibility
AfterVisibility(s) == AfterLines(s, 4)

HasSkyLine(s) == StartsWith(AfterVisibility(s), "Sky conditions: ")

AfterSkyLine(s) ==
    IF HasSkyLine(s) THEN AfterLines(AfterVisibility(s), 1) ELSE AfterVisibility(s)

HasWeatherLine(s) == StartsWith(AfterSkyLine(s), "Weather: ")

AfterWeatherLine(s) ==
    IF HasWeatherLine(s) THEN AfterLines(AfterSkyLine(s), 1) ELSE AfterSkyLine(s)

\* the report with its sky-condition line and its weather line taken out
WithoutOptionalLines(s) ==
    Take(s, Len(s) - Len(AfterVisibility(s))) \o AfterWeatherLine(s)

\* parse_weather accepts r and finds neither optional line in it
WellFormedBare(r) ==
    \E res \in {parse_weather(r)} :
        res.ok /\ ~res.out.sky_condition.some /\ ~res.out.weather.some

\* C5: a report that is accepted once its optional lines are taken out is
\* accepted with them, in each of the four combinations, and sky_condition
\* and weather are Some exactly for the lines that are there.
C5_OptionalLinesIndependent ==
    (entry = "parse_weather" /\ pc = "done" /\ WellFormedBare(WithoutOptionalLines(input))) =>
        /\ ret.ok
        /\ ret.out.sky_condition.some = HasSkyLine(input)
        /\ ret.out.weather.some = HasWeatherLine(input)

C5_Witness ==
    /\ entry = "parse_weather" /\ pc = "done"
    /\ WellFormedBare(WithoutOptionalLines(input))
    /\ ~HasSkyLine(input) /\ HasWeatherLine(input)
    /\ ret.ok /\ ~ret.out.sky_condition.some /\ ret.out.weather.some

\* the text before the first c of s (all of s when there is none)
BeforeFirst(s, c) == Take(s, PrefixLen(s, {c}, 1))

\* the text after the first c of s
AfterFirst(s, c) == Drop(s, PrefixLen(s, {c}, 1) + 1)

HasComma(s) == PrefixLen(s, {","}, 1) < Len(s)

IsSentinel(line) == Lower(line) = Lower("Station name not available")

\* C6: a first line that is not the sentinel and holds a comma gives
\* Some(Station): place is the text before the first comma, country the text
\* after it, cut at its first '(' and trimmed.
C6_NamedStationIsSome ==
    [][(pc = "station" /\ ~IsSentinel(FirstLine(i)) /\ HasComma(FirstLine(i))) =>
          station' = Some([place |-> BeforeFirst(FirstLine(i), ","),
                           country |-> Trim(BeforeFirst(AfterFirst(FirstLine(i), ","), "("))])
      ]_vars

\* C7: a first line that is the sentinel, in any letter case, gives station
\* None without an error and leaves the cursor at the end of that line, so
\* that parse_weather goes on to the newline and the timestamp.
C7_SentinelIsNone ==
    [][(pc = "station" /\ IsSentinel(FirstLine(i))) =>
          /\ station' = None
          /\ i' = Drop(i, Len(FirstLine(i)))
          /\ IF entry = "parse_weather" THEN pc' = "nl_station" /\ ret' = Pending
             ELSE pc' = "done" /\ ret' = Ok(i', None)
      ]_vars

C7_Witness ==
    /\ entry = "parse_weather" /\ pc = "time"
    /\ FirstLine(input) = "STATION NAME NOT AVAILABLE"
    /\ station = None

\* C8: a first line that cannot be read as "Place, Country" (no comma, empty,
\* or refused by Station::try_from) gives station None without an error and
\* leaves the cursor at the end of that line.
C8_UnreadableStationIsNone ==
    [][(pc = "station" /\ (~HasComma(FirstLine(i)) \/ ~Station_try_from(FirstLine(i)).ok)) =>
          /\ station' = None
          /\ i' = Drop(i, Len(FirstLine(i)))
          /\ IF entry = "parse_weather" THEN pc' = "nl_station" ELSE ret'.ok
      ]_vars

\* C9: the line "Wind: Calm:0" gives cardinal "", azimuth, mph and knots 0.
C9_CalmCardinalEmpty ==
    [][(pc = "wind" /\ FirstLine(i) = "Wind: Calm:0") =>
          wind' = [cardinal |-> "", azimuth |-> F64(0, 0), mph |-> F64(0, 0),
                   knots |-> F64(0, 0)]
      ]_vars

\* C9 as amended: the line "Wind: Calm:0" gives the values of WindInfo's
\* Default impl, cardinal "μ" and azimuth, mph and knots 0, and leaves the
\* cursor at the end of the line.
C9_CalmIsDefault ==
    [][(pc = "wind" /\ FirstLine(i) = "Wind: Calm:0") =>
          /\ wind' = [cardinal |-> "μ", azimuth |-> F64(0, 0), mph |-> F64(0, 0),
                      knots |-> F64(0, 0)]
          /\ i' = Drop(i, Len(FirstLine(i)))
          /\ IF entry = "parse_weather" THEN pc' = "nl_wind" ELSE ret'.ok
      ]_vars

C9_Witness ==
    /\ entry = "parse_windinfo" /\ pc = "done" /\ input = "Wind: Calm:0"
    /\ ret = Ok("", [cardinal |-> "μ", azimuth |-> F64(0, 0), mph |-> F64(0, 0),
                      knots |-> F64(0, 0)])

\* every directional line of the cardinals, numbers and notes above, with the
\* WindInfo its text spells out
DirectionalCases ==
    {[line |-> WindFrom(c, a.txt, m.txt, k.txt, note),
      wind |-> [cardinal |-> c, azimuth |-> a.val, mph |-> m.val, knots |-> k.val]] :
        c \in Cardinals, a \in Numbers, m \in Numbers, k \in Numbers, note \in WindNotes}

\* C10: a line "Wind: from the C (A degrees) at M MPH (K KT" and any note
\* gives cardinal C and the numbers A, M, K, and leaves the cursor at the end
\* of the line.
C10_DirectionalWind ==
    [][pc = "wind" =>
          \A line \in {FirstLine(i)} : \A w \in {x \in DirectionalCases : x.line = line} :
              /\ wind' = w.wind
              /\ i' = Drop(i, Len(w.line))
              /\ IF entry = "parse_weather" THEN pc' = "nl_wind" ELSE ret'.ok
      ]_vars

C10_Witness ==
    /\ entry = "parse_windinfo" /\ pc = "done"
    /\ input = "Wind: from the NNW (340 degrees) at 16 MPH (14 KT):0"
    /\ ret = Ok("", [cardinal |-> "NNW", azimuth |-> F64(340, 0), mph |-> F64(16, 0),
                      knots |-> F64(14, 0)])

\* every variable line of the speeds and notes above, with the speeds its
\* text spells out
VariableCases ==
    {[line |-> WindVar(m.txt, k.txt, note), mph |-> m.val, knots |-> k.val] :
        m \in VariableSpeeds, k \in VariableSpeeds, note \in WindNotes}

\* what a calm report produces
CalmWind == parse_windinfo("Wind: Calm:0").out

\* C11: a line "Wind: Variable at M MPH (K KT" and any note gives mph M and
\* knots K with the cardinal and the azimuth of a calm report, and leaves the
\* cursor at the end of the line.
C11_VariableWind ==
    [][pc = "wind" =>
          \A line \in {FirstLine(i)} : \A w \in {x \in VariableCases : x.line = line} :
              /\ wind' = [cardinal |-> CalmWind.cardinal, azimuth |-> CalmWind.azimuth,
                          mph |-> w.mph, knots |-> w.knots]
              /\ i' = Drop(i, Len(w.line))
              /\ IF entry = "parse_weather" THEN pc' = "nl_wind" ELSE ret'.ok
      ]_vars

C11_Witness ==
    /\ entry = "parse_windinfo" /\ pc = "done"
    /\ input = "Wind: Variable at 7 MPH (6 KT):0"
    /\ ret = Ok("", [cardinal |-> "μ", azimuth |-> F64(0, 0), mph |-> F64(7, 0),
                      knots |-> F64(6, 0)])

\* the line has one of the three shapes: the literal calm line, a directional
\* line or a variable line of the generated cardinals, numbers and notes
RecognizedWind(line) ==
    \/ line = "Wind: Calm:0"
    \/ \E w \in DirectionalCases : w.line = line
    \/ \E w \in VariableCases : w.line = line

\* C12: a wind line of none of the three shapes makes parse_windinfo return
\* an error, which ends parse_weather with no record and no wind bound.
C12_UnrecognizedWindFails ==
    [][(pc = "wind" /\ ~RecognizedWind(FirstLine(i))) =>
          (pc' = "done" /\ ~ret'.ok /\ wind' = Unbound)
      ]_vars

\* every pressure line of the inches texts and values above, with the integer
\* written inside its parentheses
PressureCases ==
    {[line |-> PressureLine(inches, p.txt), val |-> p.val] :
        inches \in InchesTexts, p \in HectoPascals}

FitsI16(n) == 0 - I16Max - 1 <= n /\ n <= I16Max

\* C13: a line "Pressure (altimeter): <inches> (<P> hPa)" gives pressure P,
\* whatever integer P is, and leaves the cursor at the end of the line.
C13_PressureIsHectoPascals ==
    [][pc = "pressure" =>
          \A line \in {FirstLine(i)} : \A c \in {x \in PressureCases : x.line = line} :
              /\ IF entry = "parse_weather" THEN pc' = "winfo" ELSE ret'.ok
              /\ pressure' = c.val
              /\ i' = Drop(i, Len(c.line))
      ]_vars

\* C13 as amended: the same for every P that an i16 holds; a P that an i16
\* does not hold is an error, with nothing consumed and no pressure bound.
C13_PressureFitsI16 ==
    [][pc = "pressure" =>
          \A line \in {FirstLine(i)} : \A c \in {x \in PressureCases : x.line = line} :
              IF FitsI16(c.val)
              THEN /\ IF entry = "parse_weather" THEN pc' = "winfo" ELSE ret'.ok
                   /\ pressure' = c.val
                   /\ i' = Drop(i, Len(c.line))
              ELSE pc' = "done" /\ ~ret'.ok /\ i' = i /\ pressure' = Unbound
      ]_vars

C13_Witness ==
    /\ entry = "parse_pressure" /\ pc = "done"
    /\ input = "Pressure (altimeter): 29.65 in. Hg (1004 hPa)"
    /\ ret = Ok("", 1004)

TimeCases ==
    {[line |-> TimeLine(local, y, m, d, time),
      time |-> [year |-> DigitsVal(y, 0), month |-> DigitsVal(m, 0),
                day |-> DigitsVal(d, 0), time |-> time]] :
        local \in {"Mar 28, 2021 - 04:00 AM EDT", ""},
        y \in {t \in YearTexts : Len(t) = 4 /\ AllDigits(t)},
        m \in {t \in SegmentTexts : Len(t) = 2 /\ AllDigits(t)},
        d \in {t \in SegmentTexts : Len(t) = 2 /\ AllDigits(t)},
        time \in {"0800 UTC", ""}}

\* the generated timestamps with a year, month or day that is not digits
NonNumericTimeLines ==
    {TimeLine(local, y, m, d, time) :
        local \in {"Mar 28, 2021 - 04:00 AM EDT", ""}, y \in YearTexts, m \in SegmentTexts,
        d \in SegmentTexts, time \in {"0800 UTC", ""}}
    \ {TimeLine(local, y, m, d, time) :
        local \in {"Mar 28, 2021 - 04:00 AM EDT", ""},
        y \in {t \in YearTexts : t # "" /\ AllDigits(t)},
        m \in {t \in SegmentTexts : t # "" /\ AllDigits(t)},
        d \in {t \in SegmentTexts : t # "" /\ AllDigits(t)},
        time \in {"0800 UTC", ""}}

HasSlash(line) == PrefixLen(line, {"/"}, 1) < Len(line)

\* C15: a timestamp line "<local> / YYYY.MM.DD <time>" gives the three numbers
\* and the rest of the line as time, and leaves the cursor at the end of the
\* line; a timestamp line with no '/' or with a segment that is not digits is
\* an error, which ends parse_weather with no record.
C15_TimestampReadOrRefused ==
    [][pc = "time" =>
          \A line \in {FirstLine(i)} :
              /\ \A c \in {x \in TimeCases : x.line = line} :
                    /\ IF entry = "parse_weather" THEN pc' = "nl_time" ELSE ret'.ok
                    /\ weather_time' = c.time
                    /\ i' = Drop(i, Len(c.line))
              /\ (~HasSlash(line) \/ line \in NonNumericTimeLines) =>
                    (pc' = "done" /\ ~ret'.ok /\ weather_time' = Unbound)
      ]_vars

\* every value pair of the readings above, with the Temperature its text
\* spells out
PairCases ==
    {[line |-> ValuePair(f.txt, c.txt),
      temperature |-> [fahrenheit |-> f.val, celsius |-> c.val]] :
        f \in Readings, c \in Readings}

\* C16: a value pair " F F (C C)" gives fahrenheit F and celsius C as written;
\* after the tag "Temperature:" it is bound to temperature, after "Dew Point:"
\* to dewpoint with temperature left as it was, and the record returns each
\* under its own name.
C16_TemperatureVerbatim ==
    [][/\ pc \in {"temperature", "dewpoint"} =>
            \A line \in {FirstLine(i)} : \A c \in {x \in PairCases : x.line = line} :
                /\ IF entry = "parse_weather" THEN pc' = Following(pc) ELSE ret'.ok
                /\ i' = Drop(i, Len(c.line))
                /\ IF pc = "temperature"
                   THEN temperature' = c.temperature /\ dewpoint' = dewpoint
                   ELSE dewpoint' = c.temperature /\ temperature' = temperature
       /\ pc = "winfo" =>
            (ret'.out.temperature = temperature /\ ret'.out.dewpoint = dewpoint)
      ]_vars

C16_Witness ==
    /\ entry = "parse_weather" /\ pc = "done" /\ ret.ok
    /\ ret.out.temperature = [fahrenheit |-> F64(64, 0), celsius |-> F64(18, 0)]
    /\ ret.out.dewpoint = [fahrenheit |-> F64(42, 0), celsius |-> F64(6, 0)]

\* a 2xx status
IsSuccess(status) == 200 <= status /\ status <= 299

\* the steps of a fetching method, in the order of its body
FetchSteps == <<"send", "error_for_status", "text", "parse_weather">>

\* the fetch steps among the statements run, in the order they ran
RECURSIVE FetchStepsRun(_)
FetchStepsRun(t) ==
    IF t = <<>> THEN <<>>
    ELSE IF \E k \in 1..Len(FetchSteps) : FetchSteps[k] = Head(t).stmt
         THEN <<Head(t).stmt>> \o FetchStepsRun(Tail(t))
         ELSE FetchStepsRun(Tail(t))

Invoked(stmt) == \E k \in 1..Len(trace) : trace[k].stmt = stmt

\* C17: a fetching method sends, checks the status, reads the body and parses,
\* in that order; when the transport failed or the status is not 2xx it
\* returns ReqwestError and parse_weather was not invoked; it returns NomError
\* only after a 2xx response whose body was read and which parse_weather
\* refused.
C17_FetchErrorBeforeParse ==
    (entry \in Fetchers /\ pc = "done") =>
        /\ FetchStepsRun(trace) = SubSeq(FetchSteps, 1, Len(FetchStepsRun(trace)))
        /\ (response = Unbound \/ ~IsSuccess(response.status)) =>
              (~ret.ok /\ ret.error = "ReqwestError" /\ ~Invoked("parse_weather"))
        /\ (~ret.ok /\ ret.error = "NomError") =>
              (/\ response # Unbound /\ IsSuccess(response.status)
               /\ Invoked("text") /\ Invoked("parse_weather")
               /\ \E k \in 1..Len(trace) : ~trace[k].ok)

\* the text parse_weather consumed
Consumed == Take(input, Len(input) - Len(ret.rest))

\* the texts put after the newline that follows the pressure line
TrailerTexts == {Drop(t, 1) : t \in Trailers \ {""}}

\* C18: when parse_weather returned a record and left a newline and some text,
\* it returns the same record, and leaves what follows, on every input that
\* has the text it consumed, the newline and any other text after it.
C18_TrailerNeverInspected ==
    (entry = "parse_weather" /\ pc = "done" /\ ret.ok /\ StartsWith(ret.rest, "\n")) =>
        \A t \in TrailerTexts : \E other \in {parse_weather(Consumed \o "\n" \o t)} :
            other.ok /\ other.out = ret.out /\ other.rest = "\n" \o t

C18_Witness ==
    /\ entry = "parse_weather" /\ pc = "done" /\ ret.ok
    /\ StartsWith(ret.rest, "\nob: ")
    /\ \E other \in {parse_weather(Consumed \o "\nextra")} :
          other.ok /\ other.out = ret.out /\ other.rest = "\nextra"

\* the number of newlines in s
Newlines(s) == Cardinality({k \in 1..Len(s) : CharAt(s, k) = "\n"})

\* 1 for an optional field that is there, 0 for one that is not
Present(field) == IF field.some THEN 1 ELSE 0

\* C19: the timestamp stage and the pressure stage consume no newline, and
\* when parse_weather comes to build its record the text it consumed holds
\* seven newlines and one more for each optional line that is there.
C19_OneLinePerStage ==
    [][/\ pc \in {"time", "pressure"} => Newlines(Take(i, Len(i) - Len(i'))) = 0
       /\ pc = "winfo" =>
            Newlines(Take(input, Len(input) - Len(i)))
                = 7 + Present(sky_condition) + Present(weather)
      ]_vars

\* C20: a record returned by parse_weather has its month in 1..12 and its day
\* in 1..31.
C20_MonthDayInCalendar ==
    (entry = "parse_weather" /\ pc = "done" /\ ret.ok) =>
        /\ ret.out.weather_time.month \in 1..12
        /\ ret.out.weather_time.day \in 1..31

\* every generated timestamp whose month and day are digits, with the numbers
\* they write
MonthDayCases ==
    {[line |-> TimeLine("Mar 28, 2021 - 04:00 AM EDT", "2021", m, d, "0800 UTC"),
      month |-> DigitsVal(m, 0), day |-> DigitsVal(d, 0)] :
        m \in {t \in SegmentTexts : t # "" /\ AllDigits(t)},
        d \in {t \in SegmentTexts : t # "" /\ AllDigits(t)}}

\* C20 as amended: month and day are the numbers written in the timestamp
\* whenever both are at most 255, inside the calendar or not (00, 13, 32); a
\* month or day above 255 is an error; the month and day of a record are
\* those the timestamp stage bound, each in 0..255.
C20_MonthDayAreU8 ==
    [][/\ pc = "time" =>
            \A line \in {FirstLine(i)} : \A c \in {x \in MonthDayCases : x.line = line} :
                IF c.month <= U8Max /\ c.day <= U8Max
                THEN /\ IF entry = "parse_weather" THEN pc' = "nl_time" ELSE ret'.ok
                     /\ weather_time'.month = c.month
                     /\ weather_time'.day = c.day
                ELSE pc' = "done" /\ ~ret'.ok /\ weather_time' = Unbound
       /\ pc = "winfo" =>
            /\ ret'.out.weather_time = weather_time
            /\ weather_time.month \in 0..U8Max
            /\ weather_time.day \in 0..U8Max
      ]_vars

\* a record with month 13
C20_Witness ==
    /\ entry = "parse_weather" /\ pc = "done" /\ ret.ok
    /\ ret.out.weather_time.month = 13

====
